---- MODULE Spec2Model ----
(***************************************************************************)
(* Model of streamlit_app.py: the heading-driven response parser           *)
(* parse_analysis_output and the model selection of generate_analysis.     *)
(* Python str values are TLA+ strings; a character is a string of length   *)
(* one, read with SubSeq.                                                  *)
(***************************************************************************)
EXTENDS Integers, Sequences, FiniteSets, TLC

VARIABLES
    output_text,            \* parse_analysis_output: the argument
    lines,                  \* output_text.splitlines()
    i,                      \* index of the next line of the for loop
    current_key,            \* the field body lines are appended to, or None
    parsed_result,          \* the accumulator dict, then the returned dict
    pc,                     \* "loop", "done" (returned), "raised", "idle"
    api_key,                \* generate_analysis: GEMINI_API_KEY is set
    model_name,             \* generate_analysis: the requested model
    available_model_names,  \* what genai.list_models() answers
    found_model,            \* the model chosen so far, or None
    gpc,                    \* position in generate_analysis
    generated,              \* generate_content has been called
    result                  \* the pair generate_analysis returned

vars == <<output_text, lines, i, current_key, parsed_result, pc,
          api_key, model_name, available_model_names, found_model, gpc,
          generated, result>>

parser_vars == <<output_text, lines, i, current_key, parsed_result, pc>>

select_vars == <<api_key, model_name, available_model_names, found_model, gpc,
                 generated, result>>

----------------------------------------------------------------------------
(* Bounds of the model. *)

\* Longest enumerated input, in lines.
MaxLines == 3

\* Longest enumerated list of available models.
MaxAvail == 3

----------------------------------------------------------------------------
(* Python values and str methods. *)

\* Python's None.
None == "<None>"

\* No value yet: generate_analysis has not returned.
NoResult == <<>>

\* Python truthiness of an Optional[str]: None and "" are falsy.
Truthy(v) == v # None /\ v # ""

\* s[k] for the 1-based position k.
Ch(s, k) == SubSeq(s, k, k)

\* The characters str.strip() removes and \s matches, among those the
\* inputs use.
Whitespace == {" ", "\t", "\n", "\r"}

SetMin(S) == CHOOSE m \in S : \A n \in S : m <= n

SetMax(S) == CHOOSE m \in S : \A n \in S : m >= n

RECURSIVE LStrip(_)
\* str.lstrip(): drop leading whitespace.
LStrip(s) ==
    IF s # "" /\ Ch(s, 1) \in Whitespace
    THEN LStrip(SubSeq(s, 2, Len(s)))
    ELSE s

RECURSIVE RStrip(_)
\* str.rstrip(): drop trailing whitespace.
RStrip(s) ==
    IF s # "" /\ Ch(s, Len(s)) \in Whitespace
    THEN RStrip(SubSeq(s, 1, Len(s) - 1))
    ELSE s

\* str.strip(): drop leading and trailing whitespace.
Strip(s) == RStrip(LStrip(s))

UpperCase == "ABCDEFGHIJKLMNOPQRSTUVWXYZ"

LowerCase == "abcdefghijklmnopqrstuvwxyz"

\* The lower-case letter of each upper-case letter.
LowerTable ==
    [c \in {Ch(UpperCase, k) : k \in 1..26} |->
        Ch(LowerCase, CHOOSE k \in 1..26 : Ch(UpperCase, k) = c)]

LowerChar(c) == IF c \in DOMAIN LowerTable THEN LowerTable[c] ELSE c

RECURSIVE Lower(_)
\* str.lower().
Lower(s) ==
    IF s = "" THEN "" ELSE LowerChar(Ch(s, 1)) \o Lower(SubSeq(s, 2, Len(s)))

\* sub in s (substring test).
Contains(sub, s) ==
    \E k \in 0..(Len(s) - Len(sub)) : SubSeq(s, k + 1, k + Len(sub)) = sub

\* s.startswith(p).
StartsWith(s, p) == Len(s) >= Len(p) /\ SubSeq(s, 1, Len(p)) = p

\* The line boundaries str.splitlines() splits on, among the characters the
\* inputs use; "\r\n" counts as one boundary.
LineBreaks == {"\n", "\r"}

RECURSIVE SplitLines(_)
\* str.splitlines(): no trailing empty line, "" gives no line.
SplitLines(text) ==
    IF text = "" THEN <<>>
    ELSE LET brk == {k \in 1..Len(text) : Ch(text, k) \in LineBreaks}
         IN  IF brk = {} THEN <<text>>
             ELSE LET k == SetMin(brk)
                      n == IF k < Len(text) /\ SubSeq(text, k, k + 1) = "\r\n"
                           THEN k + 2 ELSE k + 1
                  IN  <<SubSeq(text, 1, k - 1)>>
                          \o SplitLines(SubSeq(text, n, Len(text)))

----------------------------------------------------------------------------
(* parse_analysis_output *)

\* header_mapping, in the dict's insertion order: <<expected_header, csv_key>>.
header_mapping == <<
    <<"Required knowledge and skills", "QA_Knowledge-and-skills">>,
    <<"Key vocabulary terms", "QA_Key-Vocabulary">>,
    <<"Common misconceptions or challenges", "QA_Common-misconceptions">>,
    <<"Vocabulary Terms", "VA_Vocabulary-Terms">>,
    <<"Definitions", "VA_Definitions">>,
    <<"Special Attention", "VA_Special-Attention">>,
    <<"Teaching Approaches", "IR_Teaching-Approaches">>,
    <<"Scaffolding", "IR_Scaffolding">>,
    <<"Sequencing", "IR_Sequencing">> >>

\* header_mapping.keys()
ExpectedHeaders == {header_mapping[k][1] : k \in DOMAIN header_mapping}

\* header_mapping.values()
CsvKeys == {header_mapping[k][2] : k \in DOMAIN header_mapping}

\* A dict comprehension {key: "" for key in keys}.
EmptyDict(keys) == [key \in keys |-> ""]

\* The accumulator keyed by header_mapping.keys() instead.
InitialResultByHeader == EmptyDict(ExpectedHeaders)

\* parsed_result = {value: "" for value in header_mapping.values()}
InitialResult == EmptyDict(CsvKeys)

\* current_key starting at the first field instead.
InitialKeyFirstField == header_mapping[1][2]

\* current_key = None
InitialKey == None

\* A span of the line all of whose characters are in a set.
AllIn(s, from, to, set) == \A k \in from..to : Ch(s, k) \in set

\* header_pattern = ^\s*(?P<header>.+?):\s*$ matched at the start of the
\* line: the pairs <<a, b>> such that the line is a run of whitespace of
\* length a, a header up to position b - 1 (one character at least, none a
\* newline), a colon at b, and whitespace to the end.
HeaderSplits(line) ==
    LET lead  == {a \in 0..Len(line) : AllIn(line, 1, a, Whitespace)}
        colon == {b \in 1..Len(line) :
                     /\ Ch(line, b) = ":"
                     /\ AllIn(line, b + 1, Len(line), Whitespace)}
    IN  {ab \in lead \X colon :
            /\ ab[2] >= ab[1] + 2
            /\ \A k \in (ab[1] + 1)..(ab[2] - 1) : Ch(line, k) # "\n"}

\* The pattern with [^:]+? for .+? (a header holding no colon).
HeaderMatchNoInnerColon(line) ==
    LET splits == {ab \in HeaderSplits(line) :
                      ~Contains(":", SubSeq(line, ab[1] + 1, ab[2] - 1))}
    IN  IF splits = {} THEN None
        ELSE LET a == SetMax({ab[1] : ab \in splits})
                 b == SetMin({ab[2] : ab \in {s \in splits : s[1] = a}})
             IN  SubSeq(line, a + 1, b - 1)

\* header_match = header_pattern.match(line); the group "header", or None
\* without a match. The backtracking matcher finds first the longest run of
\* whitespace (\s* is greedy) and for it the shortest header (.+? is lazy).
HeaderMatch(line) ==
    LET splits == HeaderSplits(line)
    IN  IF splits = {} THEN None
        ELSE LET a == SetMax({ab[1] : ab \in splits})
                 b == SetMin({ab[2] : ab \in {s \in splits : s[1] = a}})
             IN  SubSeq(line, a + 1, b - 1)

\* expected_header.lower() of each entry of header_mapping.
LoweredHeaders == [k \in DOMAIN header_mapping |-> Lower(header_mapping[k][1])]

\* The positions of header_mapping whose expected header equals the header
\* text, both lowered.
Matching(header_text) ==
    LET lowered == Lower(header_text)
    IN  {k \in DOMAIN header_mapping : lowered = LoweredHeaders[k]}

\* The lookup with a substring test (expected in header_text) for ==.
LookupHeaderSubstring(header_text, key) ==
    LET lowered == Lower(header_text)
        hits == {k \in DOMAIN header_mapping :
                    Contains(LoweredHeaders[k], lowered)}
    IN  IF hits # {} THEN header_mapping[SetMin(hits)][2] ELSE None

\* The lookup without the else branch: no match keeps current_key.
LookupHeaderNoElse(header_text, key) ==
    LET hits == Matching(header_text)
    IN  IF hits # {} THEN header_mapping[SetMin(hits)][2] ELSE key

\* The for ... else over header_mapping.items(): current_key after it, key
\* being current_key before it. The first match in dict order wins and
\* breaks; without a match the else branch sets None.
LookupHeader(header_text, key) ==
    LET hits == Matching(header_text)
    IN  IF hits # {} THEN header_mapping[SetMin(hits)][2] ELSE None

RECURSIVE LStripBullets(_)
\* line.lstrip("-* ")
LStripBullets(line) ==
    IF line # "" /\ Ch(line, 1) \in {"-", "*", " "}
    THEN LStripBullets(SubSeq(line, 2, Len(line)))
    ELSE line

\* The bullet strip with lstrip("-* ") for [1:].strip(): every leading
\* bullet goes.
StripBulletRun(line) ==
    IF StartsWith(line, "-") \/ StartsWith(line, "*")
    THEN LStripBullets(line)
    ELSE line

\* if line.startswith("-") or line.startswith("*"): line = line[1:].strip()
StripBullet(line) ==
    IF StartsWith(line, "-") \/ StartsWith(line, "*")
    THEN Strip(SubSeq(line, 2, Len(line)))
    ELSE line

\* The append that overwrites.
AppendLineOverwrite(value, line) == line

\* The append without the newline.
AppendLineNoSeparator(value, line) == value \o line

\* The new parsed_result[current_key], value being the old one:
\* if value: value += "\n" + line, else: value = line.
AppendLine(value, line) ==
    IF value # "" THEN value \o "\n" \o line ELSE line

\* parsed_result = {k: v.strip() for k, v in parsed_result.items()}
FinalStrip(d) == [k \in DOMAIN d |-> Strip(d[k])]

\* The kind of a line of the loop, after line = line.strip().
IsBlank(raw) == Strip(raw) = ""

IsHeader(raw) == ~IsBlank(raw) /\ HeaderMatch(Strip(raw)) # None

IsBody(raw) == ~IsBlank(raw) /\ HeaderMatch(Strip(raw)) = None

\* One pass of the loop body over the raw line, from the state
\* st = [key |-> current_key, res |-> parsed_result, err |-> raised]:
\* a blank line is skipped; a header line sets current_key and contributes
\* nothing; a body line is appended under a truthy current_key. Reading
\* parsed_result[current_key] for a key the dict does not hold raises
\* KeyError.
LoopBody(st, raw) ==
    LET line == Strip(raw)
        header == HeaderMatch(line)
    IN  IF st.err \/ line = "" THEN st
        ELSE IF header # None
        THEN [st EXCEPT !.key = LookupHeader(Strip(header), st.key)]
        ELSE IF ~Truthy(st.key) THEN st
        ELSE IF st.key \notin DOMAIN st.res THEN [st EXCEPT !.err = TRUE]
        ELSE [st EXCEPT
                 !.res = [st.res EXCEPT
                             ![st.key] = AppendLine(@, StripBullet(line))]]

----------------------------------------------------------------------------
(* The inputs of parse_analysis_output. *)

\* The lines the enumerated inputs are made of: a blank line, recognized
\* headers (in other case, with whitespace around the label), unrecognized
\* headers, body text ending in a colon, and body lines with and without
\* bullets.
LineSet == {
    " ",
    "Definitions:",
    "TEACHING APPROACHES:",
    " teaching approaches :  ",
    "My Definitions:",
    "- Definitions:",
    "Note: see below:",
    "foo",
    "* term: meaning",
    "-- x",
    "-",
    ":" }

RECURSIVE JoinLines(_, _)
\* sep.join(seq)
JoinLines(seq, sep) ==
    IF seq = <<>> THEN ""
    ELSE IF Len(seq) = 1 THEN seq[1]
    ELSE seq[1] \o sep \o JoinLines(Tail(seq), sep)

\* Every text of at most MaxLines lines of LineSet.
BoundedTexts ==
    {JoinLines(ls, "\n") : ls \in UNION {[1..n -> LineSet] : n \in 0..MaxLines}}

\* The response format the prompt asks for (internal_instructions, Response:)
\* filled in, with "\r\n" line ends.
PromptFormatText ==
    JoinLines(<<"Question Analysis Summary:",
                "- Required knowledge and skills:",
                "- fractions",
                "- Key vocabulary terms:",
                "- numerator",
                "",
                "Vocabulary Analysis:",
                "* Definitions:",
                "top number">>, "\r\n")

\* Longer inputs, among them the documented examples.
ExampleTexts == {
    "Key vocabulary terms:\n- apple\n- banana",
    "Definitions:\nfoo\nSomething Else:\nbar\nDefinitions:\nbaz",
    "TEACHING APPROACHES:\nmodel it\n\nTeaching Approaches:\n\tpair work \n",
    "Definitions:\n-- x\n* term: meaning\n- term:\nplain",
    "Scaffolding:\n-\nfoo\n*\n\nSequencing:\nfirst\rsecond",
    PromptFormatText }

----------------------------------------------------------------------------
(* parse_analysis_output as a state machine: one step per line of the loop. *)

\* The state at the head of the for loop.
ParserInit ==
    /\ output_text \in BoundedTexts \cup ExampleTexts
    /\ lines = SplitLines(output_text)
    /\ i = 1
    /\ current_key = InitialKey
    /\ parsed_result = InitialResult
    /\ pc = "loop"
    /\ api_key = FALSE
    /\ model_name = None
    /\ available_model_names = <<>>
    /\ found_model = None
    /\ gpc = "idle"
    /\ generated = FALSE
    /\ result = NoResult

\* One pass of the loop body over lines[i].
LoopStep ==
    LET st == LoopBody([key |-> current_key, res |-> parsed_result,
                        err |-> FALSE], lines[i])
    IN  /\ current_key' = st.key
        /\ parsed_result' = st.res
        /\ pc' = IF st.err THEN "raised" ELSE "loop"
        /\ i' = i + 1
        /\ UNCHANGED <<output_text, lines>>
        /\ UNCHANGED select_vars

\* if not line: continue
SkipBlank ==
    /\ pc = "loop" /\ i <= Len(lines)
    /\ IsBlank(lines[i])
    /\ LoopStep

\* if header_match: ...; continue
HeaderLine ==
    /\ pc = "loop" /\ i <= Len(lines)
    /\ IsHeader(lines[i])
    /\ LoopStep

\* The rest of the loop body: bullet stripping and the append.
BodyLine ==
    /\ pc = "loop" /\ i <= Len(lines)
    /\ IsBody(lines[i])
    /\ LoopStep

\* After the loop: the final strip of every value, and the return.
Return ==
    /\ pc = "loop" /\ i > Len(lines)
    /\ parsed_result' = FinalStrip(parsed_result)
    /\ pc' = "done"
    /\ UNCHANGED <<output_text, lines, i, current_key>>
    /\ UNCHANGED select_vars

ParserNext == SkipBlank \/ HeaderLine \/ BodyLine \/ Return

Spec == ParserInit /\ [][ParserNext]_vars

----------------------------------------------------------------------------
(* generate_analysis *)

RECURSIVE FoldLines(_, _, _)
\* The for loop of parse_analysis_output over the lines from position k on.
FoldLines(st, ls, k) ==
    IF k > Len(ls) THEN st ELSE FoldLines(LoopBody(st, ls[k]), ls, k + 1)

\* parse_analysis_output(text) as one call: whether it raises, and the dict
\* it returns otherwise.
ParseAnalysisOutput(text) ==
    LET st == FoldLines([key |-> InitialKey, res |-> InitialResult,
                         err |-> FALSE], SplitLines(text), 1)
    IN  [raised |-> st.err, value |-> FinalStrip(st.res)]

\* The pair every early return and every except branch returns: {}, "".
EmptyReturn == <<EmptyDict({}), "">>

RECURSIVE LastSlash(_, _)
\* The position of the last "/" of s among its first k characters, or 0.
LastSlash(s, k) ==
    IF k = 0 THEN 0 ELSE IF Ch(s, k) = "/" THEN k ELSE LastSlash(s, k - 1)

\* short_model_name = model_name.split("/")[-1] if "/" in model_name
\*                    else model_name
ShortModelName(name) == SubSeq(name, LastSlash(name, Len(name)) + 1, Len(name))

\* Where a loop over names with a break at the first hit stops: the name at
\* the first of the hit positions, or None without a hit.
FirstHit(names, hits) ==
    IF hits = {} THEN None ELSE names[SetMin(hits)]

\* The first loop over available_model_names: the first name holding the
\* short or the full requested name.
RequestedModel(name, names) ==
    FirstHit(names, {k \in DOMAIN names :
                        \/ Contains(ShortModelName(name), names[k])
                        \/ Contains(name, names[k])})

preferred_models ==
    <<"gemini-1.5-flash", "gemini-1.5-pro", "text-bison", "chat-bison">>

\* The loops nested the other way round: availability order first.
PreferredModelByAvailability(names) ==
    FirstHit(names, {k \in DOMAIN names :
                        \E p \in DOMAIN preferred_models :
                            Contains(preferred_models[p], names[k])})

RECURSIVE PreferredFrom(_, _)
\* The outer loop over preferred_models from position p on: the inner loop
\* takes the first available name holding the preference and breaks; the
\* outer loop breaks once found_model is truthy.
PreferredFrom(p, names) ==
    IF p > Len(preferred_models) THEN None
    ELSE LET found == FirstHit(names,
                 {k \in DOMAIN names : Contains(preferred_models[p], names[k])})
         IN  IF Truthy(found) THEN found ELSE PreferredFrom(p + 1, names)

\* found_model after the block "if not found_model:" over preferred_models.
PreferredModel(names) == PreferredFrom(1, names)

\* The model names main() puts in the select box that are requested here.
RequestedNames == {
    "gemini-1.5-flash",
    "models/text-bison-001",
    "models/chat-bison-001",
    "gemini-2.0" }

\* The names genai.list_models() may answer with.
AvailableNames == {
    "models/gemini-1.5-pro",
    "models/gemini-1.5-flash",
    "tunedModels/text-bison-001",
    "models/chat-bison-001",
    "models/embedding-001",
    "models/aqa" }

\* Every list of at most MaxAvail available names.
AvailableLists == UNION {[1..n -> AvailableNames] : n \in 0..MaxAvail}

\* What response.text may be.
ResponseTexts == {"", "Definitions:\n- a term\nScaffolding:\nstep by step"}

\* The state at the call of generate_analysis(full_prompt, model_name).
GenInit ==
    /\ api_key \in BOOLEAN
    /\ model_name \in RequestedNames
    /\ available_model_names = <<>>
    /\ found_model = None
    /\ gpc = "start"
    /\ generated = FALSE
    /\ result = NoResult
    /\ output_text = ""
    /\ lines = <<>>
    /\ i = 1
    /\ current_key = InitialKey
    /\ parsed_result = InitialResult
    /\ pc = "idle"

\* if not api_key: ...; return {}, ""
ApiKeyMissing ==
    /\ gpc = "start" /\ ~api_key
    /\ result' = EmptyReturn
    /\ gpc' = "returned"
    /\ UNCHANGED <<api_key, model_name, available_model_names, found_model,
                   generated>>
    /\ UNCHANGED parser_vars

\* genai.configure, genai.list_models: the names of the available models.
ListModels ==
    /\ gpc = "start" /\ api_key
    /\ \E names \in AvailableLists : available_model_names' = names
    /\ gpc' = "find"
    /\ UNCHANGED <<api_key, model_name, found_model, generated, result>>
    /\ UNCHANGED parser_vars

\* genai.configure or genai.list_models raises: the outer except returns.
ListModelsRaises ==
    /\ gpc = "start" /\ api_key
    /\ result' = EmptyReturn
    /\ gpc' = "returned"
    /\ UNCHANGED <<api_key, model_name, available_model_names, found_model,
                   generated>>
    /\ UNCHANGED parser_vars

\* found_model = None, then the loop looking for the requested model.
FindRequested ==
    /\ gpc = "find"
    /\ found_model' = RequestedModel(model_name, available_model_names)
    /\ gpc' = "preferred"
    /\ UNCHANGED <<api_key, model_name, available_model_names, generated,
                   result>>
    /\ UNCHANGED parser_vars

\* if not found_model: the loops over preferred_models.
FindPreferred ==
    /\ gpc = "preferred"
    /\ found_model' = IF ~Truthy(found_model)
                      THEN PreferredModel(available_model_names)
                      ELSE found_model
    /\ gpc' = "first"
    /\ UNCHANGED <<api_key, model_name, available_model_names, generated,
                   result>>
    /\ UNCHANGED parser_vars

\* if not found_model and available_model_names: the first available model.
UseFirstAvailable ==
    /\ gpc = "first"
    /\ found_model' = IF ~Truthy(found_model) /\ available_model_names # <<>>
                      THEN available_model_names[1]
                      ELSE found_model
    /\ gpc' = "check"
    /\ UNCHANGED <<api_key, model_name, available_model_names, generated,
                   result>>
    /\ UNCHANGED parser_vars

\* if not found_model: ...; return {}, ""
NoModel ==
    /\ gpc = "check" /\ ~Truthy(found_model)
    /\ result' = EmptyReturn
    /\ gpc' = "returned"
    /\ UNCHANGED <<api_key, model_name, available_model_names, found_model,
                   generated>>
    /\ UNCHANGED parser_vars

\* model.generate_content answers; the text is parsed and both are returned
\* (a parse that raises ends in the outer except).
Generate ==
    /\ gpc = "check" /\ Truthy(found_model)
    /\ generated' = TRUE
    /\ \E text \in ResponseTexts :
           LET parsed == ParseAnalysisOutput(text)
           IN  result' = IF parsed.raised THEN EmptyReturn
                         ELSE <<parsed.value, text>>
    /\ gpc' = "returned"
    /\ UNCHANGED <<api_key, model_name, available_model_names, found_model>>
    /\ UNCHANGED parser_vars

\* model.generate_content raises: the inner except returns {}, "".
GenerateRaises ==
    /\ gpc = "check" /\ Truthy(found_model)
    /\ generated' = TRUE
    /\ result' = EmptyReturn
    /\ gpc' = "returned"
    /\ UNCHANGED <<api_key, model_name, available_model_names, found_model>>
    /\ UNCHANGED parser_vars

GenNext ==
    \/ ApiKeyMissing \/ ListModels \/ ListModelsRaises
    \/ FindRequested \/ FindPreferred \/ UseFirstAvailable
    \/ NoModel \/ Generate \/ GenerateRaises

SpecGen == GenInit /\ [][GenNext]_vars

----------------------------------------------------------------------------
(* The notions the properties are stated in, defined on the input lines    *)
(* alone, apart from the parser.                                           *)

\* The nine field identifiers of the record.
NineFields == {
    "QA_Knowledge-and-skills", "QA_Key-Vocabulary", "QA_Common-misconceptions",
    "VA_Vocabulary-Terms", "VA_Definitions", "VA_Special-Attention",
    "IR_Teaching-Approaches", "IR_Scaffolding", "IR_Sequencing" }

\* A line of whitespace only.
BlankLine(raw) == \A k \in 1..Len(raw) : Ch(raw, k) \in Whitespace

\* A line that, stripped, ends in a colon with a character before it.
EndsInColon(raw) ==
    LET l == Strip(raw) IN Len(l) >= 2 /\ Ch(l, Len(l)) = ":"

\* A line with text that does not end in a colon.
BodyText(raw) == ~BlankLine(raw) /\ ~EndsInColon(raw)

\* The text before the final colon, trimmed.
Label(raw) == LET l == Strip(raw) IN Strip(SubSeq(l, 1, Len(l) - 1))

\* Two characters are one letter in either case.
SameLetter(c, d) ==
    \/ c = d
    \/ \E k \in 1..26 : {c, d} = {Ch(UpperCase, k), Ch(LowerCase, k)}

\* Equality of two texts ignoring letter case.
SameIgnoringCase(s, t) ==
    Len(s) = Len(t) /\ \A k \in 1..Len(s) : SameLetter(Ch(s, k), Ch(t, k))

\* The recognized label of a field.
LabelOf(f) ==
    header_mapping[CHOOSE k \in DOMAIN header_mapping :
                       header_mapping[k][2] = f][1]

\* The field whose whole label the label of the line is, ignoring case;
\* None for any other label.
FieldOf(raw) ==
    LET fs == {f \in NineFields : SameIgnoringCase(Label(raw), LabelOf(f))}
    IN  IF fs = {} THEN None ELSE CHOOSE f \in fs : TRUE

\* One of the nine labels followed by a colon.
RecognizedHeaderLine(raw) == EndsInColon(raw) /\ FieldOf(raw) # None

\* A line ending in a colon with any other label.
UnrecognizedHeaderLine(raw) == EndsInColon(raw) /\ FieldOf(raw) = None

\* The position of the last line ending in a colon before position j, or 0.
LastHeaderBefore(ls, j) ==
    LET hs == {k \in 1..(j - 1) : EndsInColon(ls[k])}
    IN  IF hs = {} THEN 0 ELSE SetMax(hs)

\* The field the line at position j belongs to: that of the most recent
\* line ending in a colon before it, None when there is no such line or its
\* label is not recognized.
Owner(ls, j) ==
    LET h == LastHeaderBefore(ls, j)
    IN  IF h = 0 THEN None ELSE FieldOf(ls[h])

\* The text of a body line less one leading bullet and the whitespace after
\* it.
BulletStripped(raw) ==
    LET l == Strip(raw)
    IN  IF Ch(l, 1) \in {"-", "*"} THEN LStrip(SubSeq(l, 2, Len(l))) ELSE l

RECURSIVE Contributions(_, _, _)
\* The bullet-stripped body lines of field f from position j on, in order.
Contributions(ls, f, j) ==
    IF j > Len(ls) THEN <<>>
    ELSE IF BodyText(ls[j]) /\ Owner(ls, j) = f
         THEN <<BulletStripped(ls[j])>> \o Contributions(ls, f, j + 1)
         ELSE Contributions(ls, f, j + 1)

\* The trimmed newline-join of the contributions of field f.
ExpectedValue(ls, f) == Strip(JoinLines(Contributions(ls, f, 1), "\n"))

\* s is a prefix of t.
IsPrefix(s, t) == Len(s) <= Len(t) /\ SubSeq(t, 1, Len(s)) = s

\* A step of the pass over lines[i].
LineStep == pc = "loop" /\ i <= Len(lines) /\ i' = i + 1

----------------------------------------------------------------------------
(* Properties of parse_analysis_output. *)

\* C1: for every input text the call returns (it never raises), and at every
\* step of the pass and in the returned record the key set is exactly the
\* nine field identifiers, each mapped to a string.
C1_NineKeys ==
    /\ pc # "raised"
    /\ DOMAIN parsed_result = NineFields
    /\ \A f \in DOMAIN parsed_result : parsed_result[f] \in STRING

\* C1 witness: the call on the empty string has returned the nine fields.
C1_Witness ==
    /\ pc = "done" /\ output_text = ""
    /\ DOMAIN parsed_result = NineFields

\* C2: the value returned for every field is the trimmed newline-join, in
\* input order, of the bullet-stripped body lines whose most recent
\* preceding header line is the recognized header of that field; blank lines
\* add nothing and leave the current field. The documented example gives
\* "apple" and "banana" joined by a newline.
C2_ReturnedValues ==
    pc = "done" =>
        /\ \A f \in NineFields : parsed_result[f] = ExpectedValue(lines, f)
        /\ lines = <<"Key vocabulary terms:", "- apple", "- banana">>
               => parsed_result["QA_Key-Vocabulary"] = "apple\nbanana"

\* C2 witness: the documented example has been parsed.
C2_Witness ==
    /\ pc = "done"
    /\ lines = <<"Key vocabulary terms:", "- apple", "- banana">>
    /\ parsed_result["QA_Key-Vocabulary"] = "apple\nbanana"

\* C3: without a recognized header line among the input lines the call does
\* not raise and every field is the empty string, during the pass and in the
\* returned record.
C3_NoRecognizedHeader ==
    (\A j \in DOMAIN lines : ~RecognizedHeaderLine(lines[j])) =>
        /\ pc # "raised"
        /\ \A f \in NineFields : parsed_result[f] = ""

\* C3 witness: an input of body lines, a blank line and an unrecognized
\* header line, and no recognized one, has been parsed.
C3_Witness ==
    /\ pc = "done" /\ Len(lines) >= 3
    /\ \A j \in DOMAIN lines : ~RecognizedHeaderLine(lines[j])
    /\ \E j \in DOMAIN lines : UnrecognizedHeaderLine(lines[j])
    /\ \E j \in DOMAIN lines : BodyText(lines[j])
    /\ \E j \in DOMAIN lines : BlankLine(lines[j])
    /\ \A f \in NineFields : parsed_result[f] = ""

\* C4: during the pass every field's value after a line has its value before
\* the line as a prefix (a later occurrence of a header appends, it never
\* clears or overwrites), and a line ending in a colon changes no value; the
\* documented example gives "foo" and "baz" joined by a newline.
C4_AppendOnly ==
    /\ [][LineStep =>
            /\ \A f \in NineFields :
                   IsPrefix(parsed_result[f], parsed_result'[f])
            /\ EndsInColon(lines[i]) => parsed_result' = parsed_result]_vars
    /\ [](pc = "done"
          /\ lines = <<"Definitions:", "foo", "Something Else:", "bar",
                       "Definitions:", "baz">>
              => parsed_result["VA_Definitions"] = "foo\nbaz")

\* C4 witness: the documented example has been parsed, its second
\* "Definitions:" appended to what the first collected.
C4_Witness ==
    /\ pc = "done"
    /\ lines = <<"Definitions:", "foo", "Something Else:", "bar",
                 "Definitions:", "baz">>
    /\ parsed_result["VA_Definitions"] = "foo\nbaz"

\* C5: a line ending in a colon whose label is not recognized sets the
\* current field to none, and a body line whose most recent preceding header
\* line is unrecognized is appended to no field.
C5_UnrecognizedResets ==
    [][LineStep =>
          /\ UnrecognizedHeaderLine(lines[i]) => current_key' = None
          /\ (/\ BodyText(lines[i])
              /\ LastHeaderBefore(lines, i) # 0
              /\ UnrecognizedHeaderLine(lines[LastHeaderBefore(lines, i)]))
                 => parsed_result' = parsed_result]_vars

\* C5 witness: a field was active and had collected text, an unrecognized
\* header line followed, and the body line after it has been passed over.
C5_Witness ==
    /\ pc = "loop" /\ i >= 5
    /\ RecognizedHeaderLine(lines[i - 4])
    /\ BodyText(lines[i - 3])
    /\ UnrecognizedHeaderLine(lines[i - 2])
    /\ BodyText(lines[i - 1])
    /\ parsed_result[FieldOf(lines[i - 4])] = BulletStripped(lines[i - 3])
    /\ current_key = None

\* C6: a line ending in a colon opens field f exactly when its label equals
\* the whole label of f ignoring letter case; any other label, one holding a
\* recognized label as a proper substring included, opens no field.
C6_WholeLabelIgnoringCase ==
    [][(LineStep /\ EndsInColon(lines[i])) =>
          /\ \A f \in NineFields :
                 current_key' = f <=>
                     SameIgnoringCase(Label(lines[i]), LabelOf(f))
          /\ current_key' \in NineFields \cup {None}]_vars

\* C6 witness: two header lines whose labels differ only in case have both
\* opened the same field, after a label that holds a recognized label as a
\* proper substring opened none.
C6_Witness ==
    /\ i = 4 /\ current_key = "IR_Teaching-Approaches"
    /\ UnrecognizedHeaderLine(lines[1])
    /\ \E f \in NineFields : Contains(LabelOf(f), Label(lines[1]))
    /\ Label(lines[2]) # Label(lines[3])
    /\ FieldOf(lines[2]) = "IR_Teaching-Approaches"
    /\ FieldOf(lines[3]) = "IR_Teaching-Approaches"

\* C7: a line that ends in a colon never adds text to a field, whether its
\* label is recognized or not and whether or not a field is active.
C7_ColonLineAddsNothing ==
    [][(LineStep /\ EndsInColon(lines[i])) =>
          parsed_result' = parsed_result]_vars

\* C7 witness: body-like text ending in a colon has been passed over while a
\* recognized field was active, and no field holds text.
C7_Witness ==
    /\ pc = "loop" /\ i = 3
    /\ RecognizedHeaderLine(lines[1])
    /\ EndsInColon(lines[2]) /\ Contains(": ", Label(lines[2]))
    /\ \A f \in NineFields : parsed_result[f] = ""

\* C8: a body line under a recognized header is appended to that field less
\* exactly one leading bullet and the whitespace after it, otherwise as it
\* is (stripped), behind a newline when the field holds text; no other field
\* changes.
C8_OneBulletStripped ==
    [][(LineStep /\ BodyText(lines[i]) /\ Owner(lines, i) # None) =>
          LET f == Owner(lines, i)
              text == BulletStripped(lines[i])
          IN  /\ parsed_result'[f] =
                     IF parsed_result[f] = "" THEN text
                     ELSE parsed_result[f] \o "\n" \o text
              /\ \A g \in NineFields \ {f} :
                     parsed_result'[g] = parsed_result[g]]_vars

\* C8 witness: "-- x" was appended as "- x" and "* term: meaning" as
\* "term: meaning".
C8_Witness ==
    /\ pc = "loop" /\ i = 4
    /\ lines[1] = "Definitions:"
    /\ lines[2] = "-- x" /\ lines[3] = "* term: meaning"
    /\ parsed_result["VA_Definitions"] = "- x\nterm: meaning"

\* C9: a sub-heading written as a bulleted line, as the prompt and the
\* docstring show it ("- Key vocabulary terms:", "* Definitions:"), opens
\* its field.
C9_BulletedHeadingOpensField ==
    [][(/\ LineStep
        /\ EndsInColon(lines[i])
        /\ Ch(Strip(lines[i]), 1) \in {"-", "*"}
        /\ RecognizedHeaderLine(BulletStripped(lines[i])))
            => current_key' = FieldOf(BulletStripped(lines[i]))]_vars

----------------------------------------------------------------------------
(* Properties of the model selection of generate_analysis. *)

\* The order of preference among the fallback models.
PreferenceOrder ==
    <<"gemini-1.5-flash", "gemini-1.5-pro", "text-bison", "chat-bison">>

\* The positions of the available names that hold a text.
NamesHolding(sub, names) == {k \in DOMAIN names : Contains(sub, names[k])}

\* The preferences some available name holds.
MatchedPreferences(names) ==
    {p \in DOMAIN PreferenceOrder : NamesHolding(PreferenceOrder[p], names) # {}}

\* The fallback choice: the first available name holding the earliest matched
\* preference; without a matched preference the first available name; None
\* for an empty list.
FallbackChoice(names) ==
    IF MatchedPreferences(names) # {}
    THEN names[SetMin(NamesHolding(
             PreferenceOrder[SetMin(MatchedPreferences(names))], names))]
    ELSE IF names # <<>> THEN names[1] ELSE None

\* The text of a name after its last "/" (the whole name without one).
AfterLastSlash(name) ==
    LET cuts == {k \in 0..Len(name) :
                    /\ k = 0 \/ Ch(name, k) = "/"
                    /\ ~Contains("/", SubSeq(name, k + 1, Len(name)))}
    IN  SubSeq(name, SetMax(cuts) + 1, Len(name))

\* The selection is over: the model is about to be used, or the call has
\* returned.
SelectionOver == gpc \in {"check", "returned"}

\* The selection made by fallback, and the return without a model.
SelectionByFallback ==
    /\ found_model = FallbackChoice(available_model_names)
    /\ found_model = None <=> available_model_names = <<>>
    /\ (gpc = "returned" /\ found_model = None)
           => result = EmptyReturn /\ ~generated

\* C10 as stated: when the requested model name is contained in no available
\* name, the fallback choice is made.
C10_AsClaimed ==
    (/\ SelectionOver
     /\ NamesHolding(model_name, available_model_names) = {})
        => SelectionByFallback

\* C10 as amended: when neither the requested model name nor its short name
\* (the text after its last "/") is contained in an available name, the
\* chosen model is the first available name holding the earliest matched
\* preference, else the first available name, and none only for an empty
\* list, in which case the pair of the empty record and the empty text is
\* returned without a generation call.
C10_FallbackSelection ==
    (/\ SelectionOver
     /\ NamesHolding(model_name, available_model_names) = {}
     /\ NamesHolding(AfterLastSlash(model_name), available_model_names) = {})
        => SelectionByFallback

\* C10 witness: the requested model is in no available name, and the name
\* chosen holds an earlier preference than the first available name does.
C10_Witness ==
    /\ gpc = "check"
    /\ NamesHolding(AfterLastSlash(model_name), available_model_names) = {}
    /\ Len(available_model_names) >= 2
    /\ Contains(PreferenceOrder[2], available_model_names[1])
    /\ Contains(PreferenceOrder[1], found_model)
    /\ found_model = available_model_names[2]

====
